---- MODULE Spec2Model ----
(***************************************************************************)
(* Landing-gear extension simulation (henryhazelton-uni/landing-gear).     *)
(*                                                                         *)
(* Two implementations of simulate_landing_gear_extension are modelled     *)
(* step by step:                                                           *)
(*   engine "pkg"   : landing_gear/__init__.py (draws interleaved with the *)
(*                    timeline appends, no progress bar)                   *)
(*   engine "logic" : landing_gear/functions/simulation_logic.py (all      *)
(*                    delays first, then the appends, then the progress    *)
(*                    bar loop)                                            *)
(* together with the shared random source (module random) and the callers: *)
(* main() of __init__.py and a client that calls an engine once and may    *)
(* reseed the source with the same seed and call again.                    *)
(*                                                                         *)
(* Python floats are IEEE-754 doubles; the two divisions of the actuator   *)
(* phase are modelled bit-exactly (53-bit significand, round half even).   *)
(***************************************************************************)
EXTENDS Integers, Sequences, FiniteSets, TLC

(***************************************************************************)
(* Bounds of the model                                                     *)
(***************************************************************************)
MaxVariation == 1      \* random_variation_ms ranges over 0..MaxVariation
MaxNoise == 1          \* sensor_noise_ms ranges over 0..MaxNoise
RawLevels == 2         \* values the random source can deliver per draw

(***************************************************************************)
(* Program constants                                                       *)
(***************************************************************************)
steps == 100                 \* simulation_logic.py:97
variation_ms == 200          \* __init__.py:201
main_sensor_noise_ms == 50   \* __init__.py:202

None == <<>>                 \* Python None / "no value": the empty tuple
Some(v) == <<v>>

(***************************************************************************)
(* IEEE-754 double arithmetic.  A 53-bit significand does not fit TLC's    *)
(* 32-bit integers, so it is kept as a pair <<hi, lo>> = hi * 2^27 + lo.   *)
(* A float is [sign, m, e] with value sign * m * 2^e and m normalised to   *)
(* 2^52 <= m < 2^53 (sign = 0 is zero).                                    *)
(***************************************************************************)
B27 == 134217728
P52 == <<33554432, 0>>
P53 == <<67108864, 0>>
PairOfInt(n) == <<n \div B27, n % B27>>
IntOfPair(a) == a[1] * B27 + a[2]
PGeq(a, b) == a[1] > b[1] \/ (a[1] = b[1] /\ a[2] >= b[2])
PSub(a, b) ==
    IF a[2] >= b[2] THEN <<a[1] - b[1], a[2] - b[2]>>
                    ELSE <<a[1] - b[1] - 1, a[2] + B27 - b[2]>>
PDouble(a) == <<2 * a[1] + (2 * a[2]) \div B27, (2 * a[2]) % B27>>
PInc(a) == IF a[2] + 1 = B27 THEN <<a[1] + 1, 0>> ELSE <<a[1], a[2] + 1>>

\* a * 2^n and a \div 2^n for 0 <= n <= 27, then for any n >= 0
PShiftLeft27(a, n) ==
    <<a[1] * 2^n + a[2] \div 2^(27 - n), (a[2] % 2^(27 - n)) * 2^n>>
PShiftRight27(a, n) ==
    <<a[1] \div 2^n, (a[1] % 2^n) * 2^(27 - n) + a[2] \div 2^n>>
PShiftLeft(a, n) ==
    IF a = <<0, 0>> \/ n > 54 THEN <<0, 0>>
    ELSE IF n <= 27 THEN PShiftLeft27(a, n)
    ELSE PShiftLeft27(PShiftLeft27(a, 27), n - 27)
PShiftRight(a, n) ==
    IF n >= 54 THEN <<0, 0>>
    ELSE IF n <= 27 THEN PShiftRight27(a, n)
    ELSE PShiftRight27(PShiftRight27(a, 27), n - 27)

\* number of significant bits of 0 <= n < 2^27, and of a pair
BitLength(n) == CHOOSE k \in 0..27 : n < 2^k /\ (k = 0 \/ n >= 2^(k - 1))
PBitLength(a) == IF a[1] > 0 THEN 27 + BitLength(a[1]) ELSE BitLength(a[2])

\* m * 2^e with m # 0 brought to 2^52 <= m < 2^53
Normalize(m, e) ==
    LET shift == 53 - PBitLength(m)
    IN [m |-> PShiftLeft(m, shift), e |-> e - shift]

\* a * g for a small factor 0 <= g <= 16
PMulSmall(a, g) == <<a[1] * g + (a[2] * g) \div B27, (a[2] * g) % B27>>

\* Long division of n by d.  A step keeps n * 2^k = q * d + r with r < d and
\* produces one more quotient bit (DivBit) or one more hexadecimal quotient
\* digit, four bits (DivDigit).
DivBit(s) ==
    LET r2 == PDouble(s.r) IN
    IF PGeq(r2, s.d)
    THEN [s EXCEPT !.r = PSub(r2, s.d), !.q = PInc(PDouble(s.q)), !.k = @ + 1]
    ELSE [s EXCEPT !.r = r2, !.q = PDouble(s.q), !.k = @ + 1]
DivDigit(s) ==
    LET r16 == PMulSmall(s.r, 16)
        g == CHOOSE x \in 0..15 :
                /\ PGeq(r16, PMulSmall(s.d, x))
                /\ ~PGeq(r16, PMulSmall(s.d, x + 1))
        q16 == PMulSmall(s.q, 16)
    IN [s EXCEPT !.r = PSub(r16, PMulSmall(s.d, g)),
                 !.q = <<q16[1], q16[2] + g>>,
                 !.k = @ + 4]
\* n further digits.  Each intermediate state is bound as a value before the
\* next step uses it.
RECURSIVE DivDigits(_, _)
DivDigits(s, n) ==
    IF n = 0 THEN s
    ELSE CHOOSE out \in { DivDigits(DivDigit(v), n - 1) : v \in {s} } : TRUE
\* steps until the quotient has 53 bits; n and d are normalised, so these are
\* 52 bits after the leading one when n >= d, and 53 bits when n < d
LongDiv(n, d) ==
    IF PGeq(n, d)
    THEN DivDigits([r |-> PSub(n, d), d |-> d, q |-> <<0, 1>>, k |-> 0], 13)
    ELSE CHOOSE out \in
            { DivDigits(DivBit(v), 13) :
                v \in {[r |-> n, d |-> d, q |-> <<0, 0>>, k |-> 0]} } : TRUE

\* float(n) for an integer n with |n| < 2^31 (exact)
FloatOfInt(n) ==
    IF n = 0 THEN [sign |-> 0, m |-> <<0, 0>>, e |-> 0]
    ELSE LET nm == Normalize(PairOfInt(IF n < 0 THEN -n ELSE n), 0)
         IN [sign |-> IF n > 0 THEN 1 ELSE -1, m |-> nm.m, e |-> nm.e]

\* a / b on doubles, b # 0: correctly rounded (round to nearest, ties to even)
FloatDiv(a, b) ==
    IF a.sign = 0 THEN a
    ELSE LET ld == LongDiv(a.m, b.m)
             r2 == PDouble(ld.r)
             up == (PGeq(r2, b.m) /\ r2 # b.m) \/ (r2 = b.m /\ ld.q[2] % 2 = 1)
             q1 == IF up THEN PInc(ld.q) ELSE ld.q
             carry == q1 = P53
         IN [sign |-> a.sign * b.sign,
             m |-> IF carry THEN P52 ELSE q1,
             e |-> a.e - b.e - ld.k + (IF carry THEN 1 ELSE 0)]

\* |x| rounded towards zero, as an integer
FloatMagnitude(x) ==
    IntOfPair(IF x.e >= 0 THEN PShiftLeft(x.m, x.e) ELSE PShiftRight(x.m, -x.e))

\* a mutation of FloatToInt: rounds away from zero (math.ceil on positives)
FloatToIntCeil(x) ==
    IF x.sign = 0 THEN 0
    ELSE LET t == FloatMagnitude(x)
             exact == x.e >= 0 \/ PShiftLeft(PShiftRight(x.m, -x.e), -x.e) = x.m
         IN x.sign * (IF exact THEN t ELSE t + 1)

\* int(x): truncation towards zero
FloatToInt(x) == IF x.sign = 0 THEN 0 ELSE x.sign * FloatMagnitude(x)

(***************************************************************************)
(* Gear states and configurations                                          *)
(***************************************************************************)
GearState == {"UP_LOCKED", "TRANSITIONING_DOWN", "DOWN_LOCKED", "FAILURE_DETECTED"}

GearConfiguration(name, pump, speed, distance, lock, requirement) ==
    [name |-> name,
     pump_latency_ms |-> pump,
     actuator_speed_mm_per_100ms |-> speed,
     extension_distance_mm |-> distance,
     lock_time_ms |-> lock,
     requirement_time_ms |-> requirement]

config_a == GearConfiguration("Config A - Shared Pump", 300, 8, 700, 300, 8000)
config_b == GearConfiguration("Config B - Dedicated Pump", 100, 12, 700, 300, 8000)

\* Configurations a client passes in.  The fields are plain Python ints (the
\* speed an integer-valued float); latencies and the deadline may be
\* negative, the distance is positive.  An actuator profile is
\* <<speed, distance, deadline>>:
\*   <<7, 7, 101>>    the double quotient 7 / (7 / 100) is 99.99..., the real
\*                    one 100; the totals lie on both sides of the deadline
\*   <<1400, 7, -1>>  an ideal extension time below 1 ms, a negative deadline
\*   <<0, 7, 101>>, <<-1, 7, 101>>   non-positive speeds
Latencies == {-1, 1}
Actuators == {<<7, 7, 101>>, <<1400, 7, -1>>, <<0, 7, 101>>, <<-1, 7, 101>>}
TestConfigs ==
    { GearConfiguration("test", p, a[1], a[2], l, a[3]) :
        p \in Latencies, l \in Latencies, a \in Actuators }
Configs == {config_a, config_b} \cup TestConfigs
Variations == 0..MaxVariation
SensorNoises == 0..MaxNoise
Engines == {"pkg", "logic"}

(***************************************************************************)
(* The timing arithmetic of the engines (the same lines in both)           *)
(***************************************************************************)
\* a mutation of RandInt: the range is ten times the requested one
RandIntTenfold(lo, hi, raw) == 10 * lo + (raw * (10 * hi - 10 * lo)) \div (RawLevels - 1)

\* random.randint(lo, hi) for the raw value the source delivers: raw 0 is
\* lo, raw RawLevels - 1 is hi, the levels in between are spread evenly
\* (every integer of lo..hi when hi - lo < RawLevels).
RandInt(lo, hi, raw) == lo + (raw * (hi - lo)) \div (RawLevels - 1)

\* a mutation of ClampDelay: the max(.., 0) is missing
ClampDelayMissing(delay) == delay

\* max(delay, 0)
ClampDelay(delay) == IF delay > 0 THEN delay ELSE 0

\* a mutation of AdvanceTime: the event is stamped with the delay alone
AdvanceTimeReset(t, delay) == delay

\* time_ms += delay
AdvanceTime(t, delay) == t + delay

PumpDelay(cfg, variation, raw) ==
    ClampDelay(cfg.pump_latency_ms + RandInt(-variation, variation, raw))

\* a mutation of SpeedMmPerMs: converts with the wrong factor
SpeedMmPerMsWrongFactor(cfg) ==
    FloatDiv(FloatOfInt(cfg.actuator_speed_mm_per_100ms), FloatOfInt(10))

\* speed_mm_per_ms = config.actuator_speed_mm_per_100ms / 100.0
SpeedMmPerMs(cfg) ==
    FloatDiv(FloatOfInt(cfg.actuator_speed_mm_per_100ms), FloatOfInt(100))

\* a mutation of SpeedInvalid: the test is < 0, so speed 0 reaches the division
SpeedInvalidStrict(speed_mm_per_ms) == speed_mm_per_ms.sign < 0

\* if speed_mm_per_ms <= 0: raise ValueError(...)
SpeedInvalid(speed_mm_per_ms) == speed_mm_per_ms.sign <= 0

\* ideal_extension_time = config.extension_distance_mm / speed_mm_per_ms
IdealExtensionTime(cfg, speed_mm_per_ms) ==
    FloatDiv(FloatOfInt(cfg.extension_distance_mm), speed_mm_per_ms)

\* speed_mm_per_ms of every configuration, and int(ideal_extension_time) of
\* every configuration that reaches the division with a non-zero speed; each
\* is a function of the configuration alone and is computed once
SpeedOf == [cfg \in Configs |-> SpeedMmPerMs(cfg)]
IdealOf ==
    [cfg \in {c \in Configs : SpeedOf[c].sign # 0} |->
        FloatToInt(IdealExtensionTime(cfg, SpeedOf[cfg]))]

\* extension_time = max(int(ideal_extension_time) + randint(..), 0)
ExtensionTime(cfg, variation, raw) ==
    ClampDelay(IdealOf[cfg] + RandInt(-variation, variation, raw))

LockDelay(cfg, variation, raw) ==
    ClampDelay(cfg.lock_time_ms + RandInt(-variation, variation, raw))

\* a mutation of MeetsRequirement: a run that ends exactly on the deadline fails
MeetsRequirementStrict(total, cfg) == total < cfg.requirement_time_ms

\* meets_requirement = total_time_ms <= config.requirement_time_ms
MeetsRequirement(total, cfg) == total <= cfg.requirement_time_ms

ValueErrorSpeed == <<"ValueError", "Actuator speed must be positive">>
ValueErrorSleep == <<"ValueError", "sleep length must be non-negative">>
ZeroDivision == <<"ZeroDivisionError", "float division by zero">>

(***************************************************************************)
(* Timeline events: the tuple (time_ms, description, state).  A formatted  *)
(* description is the tuple of its literal parts and the number formatted  *)
(* into it.                                                                *)
(***************************************************************************)
Event(t, desc, state) == <<t, desc, state>>
Timestamp(ev) == ev[1]
StateOf(ev) == ev[3]

InitialEvent(t, state) == Event(t, <<"Initial state: gear up and locked">>, state)
CommandEvent(t, state) == Event(t, <<"Command issued: GEAR DOWN">>, state)
PumpEvent(t, delay, state) ==
    Event(t, <<"Hydraulic pump ready after ", delay, " ms">>, state)
ActuatorEvent(t, delay, state) ==
    Event(t, <<"Actuator finished extending after ", delay, " ms">>, state)
SensorEvent(t, delay, state) ==
    Event(t, <<"Down-position sensor triggered (+", delay, " ms noise)">>, state)
\* a mutation of LockEvent: the event keeps the state of the phase before it
LockEventStale(t, delay, state) ==
    Event(t, <<"Gear locked DOWN after additional ", delay, " ms">>, "TRANSITIONING_DOWN")

LockEvent(t, delay, state) ==
    Event(t, <<"Gear locked DOWN after additional ", delay, " ms">>, state)
FailureEvent(cfg) ==
    Event(cfg.requirement_time_ms,
          <<"Requirement breached (> ", cfg.requirement_time_ms,
            " ms). System would flag failure.">>,
          "FAILURE_DETECTED")

\* a mutation of RequirementCheck: a breach caps the reported total at the
\* deadline
RequirementCheckCapped(cfg, tl, t) ==
    LET meets_requirement == MeetsRequirement(t, cfg)
    IN [config |-> cfg,
        timeline |-> IF meets_requirement THEN tl ELSE Append(tl, FailureEvent(cfg)),
        total_time_ms |-> IF meets_requirement THEN t ELSE cfg.requirement_time_ms,
        meets_requirement |-> meets_requirement,
        failure_state_time |->
            IF meets_requirement THEN None ELSE Some(cfg.requirement_time_ms)]

\* The requirement check and the returned dictionary
RequirementCheck(cfg, tl, t) ==
    LET total_time_ms == t
        meets_requirement == MeetsRequirement(total_time_ms, cfg)
    IN [config |-> cfg,
        timeline |-> IF meets_requirement THEN tl ELSE Append(tl, FailureEvent(cfg)),
        total_time_ms |-> total_time_ms,
        meets_requirement |-> meets_requirement,
        failure_state_time |->
            IF meets_requirement THEN None ELSE Some(cfg.requirement_time_ms)]

(***************************************************************************)
(* State                                                                   *)
(***************************************************************************)
VARIABLES
    tape,       \* the values the seeded random source delivers, as far as drawn
    draws,      \* how many values have been consumed since the source was seeded
    drawLog,    \* the draws of the current call: [site, index, value]
    caller,     \* "idle", "client", "rerun" or "main": who made the current call
    prev,       \* the finished previous call of this caller (None or Some(rec))
    engine, config, random_variation_ms, sensor_noise_ms,   \* the call
    start,      \* value of draws when the call began
    pc,         \* position in the engine ("idle" before, "done" after a call)
    timeline, current_state, time_ms,                       \* locals
    pump_delay, extension_time, sensor_delay, lock_delay,
    total_delay_time_ms, counter,
    result,     \* None, or Some(returned dictionary)
    raised      \* None, or the exception that left the call

rngVars == <<tape, draws, drawLog>>
callVars == <<caller, prev, engine, config, random_variation_ms, sensor_noise_ms, start>>
delayVars == <<pump_delay, extension_time, sensor_delay, lock_delay>>
loopVars == <<total_delay_time_ms, counter>>
outVars == <<result, raised>>
vars == <<tape, draws, drawLog, caller, prev, engine, config, random_variation_ms,
          sensor_noise_ms, start, pc, timeline, current_state, time_ms,
          pump_delay, extension_time, sensor_delay, lock_delay,
          total_delay_time_ms, counter, result, raised>>

Init ==
    /\ tape = <<>> /\ draws = 0 /\ drawLog = <<>>
    /\ caller = "idle" /\ prev = None
    /\ engine = "pkg" /\ config = None
    /\ random_variation_ms = 0 /\ sensor_noise_ms = 0 /\ start = 0
    /\ pc = "idle"
    /\ timeline = <<>> /\ current_state = "unbound" /\ time_ms = 0
    /\ pump_delay = 0 /\ extension_time = 0 /\ sensor_delay = 0 /\ lock_delay = 0
    /\ total_delay_time_ms = 0 /\ counter = 0
    /\ result = None /\ raised = None

(***************************************************************************)
(* The shared random source                                                *)
(***************************************************************************)
\* a mutation of NextRaws: a source that ignores the seed (SystemRandom)
NextRawsUnseeded == 0..(RawLevels - 1)

\* The raw values the next draw can deliver: after a reseed with the same
\* seed the recorded sequence is replayed, beyond it the seed's sequence is
\* not yet known and any value is possible.
NextRaws == IF draws < Len(tape) THEN {tape[draws + 1]} ELSE 0..(RawLevels - 1)

\* a mutation of Consumed: a call of randint takes two values from the source
ConsumedTwo(n) == n + 2

\* position of the source after one call of randint
Consumed(n) == n + 1

Draw(site, raw) ==
    /\ tape' = IF draws < Len(tape) THEN tape ELSE Append(tape, raw)
    /\ draws' = Consumed(draws)
    /\ drawLog' = Append(drawLog, [site |-> site, index |-> draws + 1, raw |-> raw])

\* the locals of a fresh call
BeginCall(e, cfg, variation, noise) ==
    /\ engine' = e /\ config' = cfg
    /\ random_variation_ms' = variation /\ sensor_noise_ms' = noise
    /\ pc' = "init"
    /\ timeline' = <<>> /\ current_state' = "unbound" /\ time_ms' = 0
    /\ pump_delay' = 0 /\ extension_time' = 0 /\ sensor_delay' = 0 /\ lock_delay' = 0
    /\ total_delay_time_ms' = 0 /\ counter' = 0
    /\ result' = None /\ raised' = None
    /\ drawLog' = <<>>

Raise(exc) ==
    /\ raised' = exc /\ result' = None /\ pc' = "done"

Return(res) ==
    /\ result' = Some(res) /\ raised' = None /\ pc' = "done"

(***************************************************************************)
(* Engine "pkg": simulate_landing_gear_extension of landing_gear/__init__  *)
(***************************************************************************)
PkgInit ==
    /\ pc = "init" /\ engine = "pkg"
    /\ current_state' = "UP_LOCKED"
    /\ time_ms' = 0
    /\ timeline' = <<InitialEvent(0, "UP_LOCKED"), CommandEvent(0, "UP_LOCKED")>>
    /\ pc' = "pump"
    /\ UNCHANGED <<rngVars, callVars, delayVars, loopVars, outVars>>

PkgPump ==
    /\ pc = "pump" /\ engine = "pkg"
    /\ \E raw \in NextRaws :
        LET delay == PumpDelay(config, random_variation_ms, raw)
            t == AdvanceTime(time_ms, delay)
        IN /\ Draw("pump", raw)
           /\ pump_delay' = delay
           /\ time_ms' = t
           /\ current_state' = "TRANSITIONING_DOWN"
           /\ timeline' = Append(timeline, PumpEvent(t, delay, "TRANSITIONING_DOWN"))
    /\ pc' = "actuator"
    /\ UNCHANGED <<callVars, extension_time, sensor_delay, lock_delay, loopVars, outVars>>

PkgActuator ==
    /\ pc = "actuator" /\ engine = "pkg"
    /\ LET speed_mm_per_ms == SpeedOf[config] IN
       IF SpeedInvalid(speed_mm_per_ms)
       THEN /\ Raise(ValueErrorSpeed)
            /\ UNCHANGED <<rngVars, timeline, time_ms, extension_time>>
       ELSE IF speed_mm_per_ms.sign = 0
       THEN /\ Raise(ZeroDivision)
            /\ UNCHANGED <<rngVars, timeline, time_ms, extension_time>>
       ELSE /\ \E raw \in NextRaws :
                LET delay == ExtensionTime(config, random_variation_ms, raw)
                    t == AdvanceTime(time_ms, delay)
                IN /\ Draw("actuator", raw)
                   /\ extension_time' = delay
                   /\ time_ms' = t
                   /\ timeline' = Append(timeline, ActuatorEvent(t, delay, current_state))
            /\ pc' = "sensor"
            /\ UNCHANGED outVars
    /\ UNCHANGED <<callVars, current_state, pump_delay, sensor_delay, lock_delay, loopVars>>

PkgSensor ==
    /\ pc = "sensor" /\ engine = "pkg"
    /\ LET t == AdvanceTime(time_ms, sensor_noise_ms)
       IN /\ sensor_delay' = sensor_noise_ms
          /\ time_ms' = t
          /\ timeline' = Append(timeline, SensorEvent(t, sensor_noise_ms, current_state))
    /\ pc' = "lock"
    /\ UNCHANGED <<rngVars, callVars, current_state, pump_delay, extension_time,
                   lock_delay, loopVars, outVars>>

PkgLock ==
    /\ pc = "lock" /\ engine = "pkg"
    /\ \E raw \in NextRaws :
        LET delay == LockDelay(config, random_variation_ms, raw)
            t == AdvanceTime(time_ms, delay)
        IN /\ Draw("lock", raw)
           /\ lock_delay' = delay
           /\ time_ms' = t
           /\ current_state' = "DOWN_LOCKED"
           /\ timeline' = Append(timeline, LockEvent(t, delay, "DOWN_LOCKED"))
    /\ pc' = "check"
    /\ UNCHANGED <<callVars, pump_delay, extension_time, sensor_delay, loopVars, outVars>>

PkgCheck ==
    /\ pc = "check" /\ engine = "pkg"
    /\ LET res == RequirementCheck(config, timeline, time_ms)
       IN /\ timeline' = res.timeline
          /\ Return(res)
    /\ UNCHANGED <<rngVars, callVars, current_state, time_ms, delayVars, loopVars>>

(***************************************************************************)
(* Engine "logic": simulate_landing_gear_extension of                      *)
(* landing_gear/functions/simulation_logic.py                              *)
(***************************************************************************)
LogicInit ==
    /\ pc = "init" /\ engine = "logic"
    /\ current_state' = "UP_LOCKED"
    /\ time_ms' = 0
    /\ timeline' = <<InitialEvent(0, "UP_LOCKED"), CommandEvent(0, "UP_LOCKED")>>
    /\ pc' = "pump_delay"
    /\ UNCHANGED <<rngVars, callVars, delayVars, loopVars, outVars>>

LogicPumpDelay ==
    /\ pc = "pump_delay" /\ engine = "logic"
    /\ \E raw \in NextRaws :
        /\ Draw("pump", raw)
        /\ pump_delay' = PumpDelay(config, random_variation_ms, raw)
    /\ pc' = "extension_time"
    /\ UNCHANGED <<callVars, timeline, current_state, time_ms, extension_time,
                   sensor_delay, lock_delay, loopVars, outVars>>

LogicExtensionTime ==
    /\ pc = "extension_time" /\ engine = "logic"
    /\ LET speed_mm_per_ms == SpeedOf[config] IN
       IF SpeedInvalid(speed_mm_per_ms)
       THEN /\ Raise(ValueErrorSpeed)
            /\ UNCHANGED <<rngVars, extension_time>>
       ELSE IF speed_mm_per_ms.sign = 0
       THEN /\ Raise(ZeroDivision)
            /\ UNCHANGED <<rngVars, extension_time>>
       ELSE /\ \E raw \in NextRaws :
                /\ Draw("actuator", raw)
                /\ extension_time' = ExtensionTime(config, random_variation_ms, raw)
            /\ pc' = "lock_delay"
            /\ UNCHANGED outVars
    /\ UNCHANGED <<callVars, timeline, current_state, time_ms, pump_delay,
                   sensor_delay, lock_delay, loopVars>>

LogicLockDelay ==
    /\ pc = "lock_delay" /\ engine = "logic"
    /\ sensor_delay' = sensor_noise_ms
    /\ \E raw \in NextRaws :
        /\ Draw("lock", raw)
        /\ lock_delay' = LockDelay(config, random_variation_ms, raw)
    /\ pc' = "append_pump"
    /\ UNCHANGED <<callVars, timeline, current_state, time_ms, pump_delay,
                   extension_time, loopVars, outVars>>

LogicAppendPump ==
    /\ pc = "append_pump" /\ engine = "logic"
    /\ LET t == AdvanceTime(time_ms, pump_delay)
       IN /\ time_ms' = t
          /\ current_state' = "TRANSITIONING_DOWN"
          /\ timeline' = Append(timeline, PumpEvent(t, pump_delay, "TRANSITIONING_DOWN"))
    /\ pc' = "append_actuator"
    /\ UNCHANGED <<rngVars, callVars, delayVars, loopVars, outVars>>

LogicAppendActuator ==
    /\ pc = "append_actuator" /\ engine = "logic"
    /\ LET t == AdvanceTime(time_ms, extension_time)
       IN /\ time_ms' = t
          /\ timeline' = Append(timeline, ActuatorEvent(t, extension_time, current_state))
    /\ pc' = "append_sensor"
    /\ UNCHANGED <<rngVars, callVars, current_state, delayVars, loopVars, outVars>>

\* a mutation of LogicAppendSensor: the clock advances by the lock delay
LogicAppendSensorWrongDelay ==
    /\ pc = "append_sensor" /\ engine = "logic"
    /\ LET t == AdvanceTime(time_ms, lock_delay)
       IN /\ time_ms' = t
          /\ timeline' = Append(timeline, SensorEvent(t, sensor_delay, current_state))
    /\ pc' = "append_lock"
    /\ UNCHANGED <<rngVars, callVars, current_state, delayVars, loopVars, outVars>>

LogicAppendSensor ==
    /\ pc = "append_sensor" /\ engine = "logic"
    /\ LET t == AdvanceTime(time_ms, sensor_delay)
       IN /\ time_ms' = t
          /\ timeline' = Append(timeline, SensorEvent(t, sensor_delay, current_state))
    /\ pc' = "append_lock"
    /\ UNCHANGED <<rngVars, callVars, current_state, delayVars, loopVars, outVars>>

LogicAppendLock ==
    /\ pc = "append_lock" /\ engine = "logic"
    /\ LET t == AdvanceTime(time_ms, lock_delay)
       IN /\ time_ms' = t
          /\ current_state' = "DOWN_LOCKED"
          /\ timeline' = Append(timeline, LockEvent(t, lock_delay, "DOWN_LOCKED"))
    /\ pc' = "progress_start"
    /\ UNCHANGED <<rngVars, callVars, delayVars, loopVars, outVars>>

\* total_delay_time_ms, steps, counter, sleep_per_step, start_time
LogicProgressStart ==
    /\ pc = "progress_start" /\ engine = "logic"
    /\ total_delay_time_ms' = pump_delay + extension_time + sensor_delay + lock_delay
    /\ counter' = 0
    /\ pc' = "progress"
    /\ UNCHANGED <<rngVars, callVars, timeline, current_state, time_ms, delayVars, outVars>>

\* a mutation of ProgressBody: the pause of the bar is charged to the
\* simulated clock
ProgressBodyAdvancing(f) ==
    [f EXCEPT !.counter = @ + 1, !.time_ms = @ + total_delay_time_ms \div steps + 1]

\* What one iteration of the loop body (progress_bar, time.sleep, the
\* increment) does to the locals and to the random source: it writes the bar
\* to stdout and sleeps, and it increments counter.
ProgressBody(f) == [f EXCEPT !.counter = @ + 1]

\* a mutation of LoopCondition: the loop stops one iteration early
LoopConditionShort(c) == c < steps

\* while counter < steps + 1
LoopCondition(c) == c < steps + 1

\* One iteration of "while counter < steps + 1".  sleep_per_step is
\* total_delay_time_ms / steps / 1000; time.sleep raises ValueError for a
\* negative argument.
LogicProgressStep ==
    /\ pc = "progress" /\ engine = "logic"
    /\ LoopCondition(counter)
    /\ IF total_delay_time_ms < 0
       THEN /\ Raise(ValueErrorSleep)
            /\ UNCHANGED <<rngVars, timeline, current_state, time_ms, counter>>
       ELSE LET f == ProgressBody([counter |-> counter, time_ms |-> time_ms,
                                   current_state |-> current_state,
                                   timeline |-> timeline, draws |-> draws])
            IN /\ counter' = f.counter
               /\ time_ms' = f.time_ms
               /\ current_state' = f.current_state
               /\ timeline' = f.timeline
               /\ draws' = f.draws
               /\ UNCHANGED <<tape, drawLog, pc, outVars>>
    /\ UNCHANGED <<callVars, delayVars, total_delay_time_ms>>

\* the loop condition fails: end_time, time_taken and the prints
LogicProgressEnd ==
    /\ pc = "progress" /\ engine = "logic"
    /\ ~LoopCondition(counter)
    /\ pc' = "check"
    /\ UNCHANGED <<rngVars, callVars, timeline, current_state, time_ms, delayVars,
                   loopVars, outVars>>

LogicCheck ==
    /\ pc = "check" /\ engine = "logic"
    /\ LET res == RequirementCheck(config, timeline, time_ms)
       IN /\ timeline' = res.timeline
          /\ Return(res)
    /\ UNCHANGED <<rngVars, callVars, current_state, time_ms, delayVars, loopVars>>

(***************************************************************************)
(* Callers                                                                 *)
(***************************************************************************)
\* the finished call, as its caller keeps it
Outcome ==
    [engine |-> engine, config |-> config,
     random_variation_ms |-> random_variation_ms,
     sensor_noise_ms |-> sensor_noise_ms,
     start |-> start, draws |-> draws, drawLog |-> drawLog,
     result |-> result, raised |-> raised]

\* A client seeds the source and calls one of the engines.
ClientCall ==
    /\ pc = "idle" /\ caller = "idle"
    /\ \E e \in Engines, cfg \in Configs, v \in Variations, n \in SensorNoises :
        BeginCall(e, cfg, v, n)
    /\ caller' = "client"
    /\ start' = draws
    /\ UNCHANGED <<tape, draws, prev>>

\* The client seeds the source again with the same seed and repeats the call
\* with identical arguments, on either engine.
ClientRerun ==
    /\ pc = "done" /\ caller = "client"
    /\ \E e \in Engines :
        BeginCall(e, config, random_variation_ms, sensor_noise_ms)
    /\ prev' = Some(Outcome)
    /\ caller' = "rerun"
    /\ draws' = 0
    /\ start' = 0
    /\ UNCHANGED tape

\* main(): random.seed(42), then the first call, of config_a
MainRunA ==
    /\ pc = "idle" /\ caller = "idle"
    /\ BeginCall("pkg", config_a, variation_ms, main_sensor_noise_ms)
    /\ caller' = "main"
    /\ tape' = <<>> /\ draws' = 0
    /\ start' = 0
    /\ UNCHANGED prev

\* main(): the second call, of config_b, with the source as run A left it
MainRunB ==
    /\ pc = "done" /\ caller = "main" /\ prev = None
    /\ BeginCall("pkg", config_b, variation_ms, main_sensor_noise_ms)
    /\ prev' = Some(Outcome)
    /\ start' = draws
    /\ UNCHANGED <<tape, draws, caller>>

Next ==
    \/ ClientCall \/ ClientRerun \/ MainRunA \/ MainRunB
    \/ PkgInit \/ PkgPump \/ PkgActuator \/ PkgSensor \/ PkgLock \/ PkgCheck
    \/ LogicInit \/ LogicPumpDelay \/ LogicExtensionTime \/ LogicLockDelay
    \/ LogicAppendPump \/ LogicAppendActuator \/ LogicAppendSensor
    \/ LogicAppendLock \/ LogicProgressStart \/ LogicProgressStep
    \/ LogicProgressEnd \/ LogicCheck

Spec == Init /\ [][Next]_vars

\* The statements of a call in progress.  The interpreter executes a call
\* statement by statement until it returns or raises: a statement that can
\* run does run.
EngineStep ==
    \/ PkgInit \/ PkgPump \/ PkgActuator \/ PkgSensor \/ PkgLock \/ PkgCheck
    \/ LogicInit \/ LogicPumpDelay \/ LogicExtensionTime \/ LogicLockDelay
    \/ LogicAppendPump \/ LogicAppendActuator \/ LogicAppendSensor
    \/ LogicAppendLock \/ LogicProgressStart \/ LogicProgressStep
    \/ LogicProgressEnd \/ LogicCheck

FairSpec == Init /\ [][Next]_vars /\ WF_vars(EngineStep)

\* The engines take sensor_noise_ms as an int and do not check it.  A caller
\* outside the documented contract (sensor_noise_ms >= 0) can pass a
\* negative value.
UncheckedNoises == SensorNoises \cup {-1}

UncheckedCall ==
    /\ pc = "idle" /\ caller = "idle"
    /\ \E e \in Engines, cfg \in Configs, v \in Variations, n \in UncheckedNoises :
        BeginCall(e, cfg, v, n)
    /\ caller' = "client"
    /\ start' = draws
    /\ UNCHANGED <<tape, draws, prev>>

UncheckedNext == UncheckedCall \/ ClientRerun \/ EngineStep

UncheckedSpec == Init /\ [][UncheckedNext]_vars

(***************************************************************************)
(* Properties                                                              *)
(***************************************************************************)
Returned == pc = "done" /\ result # None
Timestamps(tl) == [i \in 1..Len(tl) |-> Timestamp(tl[i])]
HasFailureEvent(tl) == \E i \in 1..Len(tl) : StateOf(tl[i]) = "FAILURE_DETECTED"
\* floor(extension_distance_mm / (actuator_speed / 100)) over the reals, for
\* a positive speed
RealExtensionFloor(cfg) ==
    (100 * cfg.extension_distance_mm) \div cfg.actuator_speed_mm_per_100ms

\* C1: a returned result whose total time exceeds the deadline ends with a
\* FAILURE_DETECTED event stamped with the deadline, has meets_requirement
\* false and failure_state_time equal to the deadline; a result whose total
\* time is within the deadline has no FAILURE_DETECTED event,
\* meets_requirement true and failure_state_time None.
C1_RequirementBoundary ==
    Returned =>
        LET r == result[1]
            tl == r.timeline
            deadline == r.config.requirement_time_ms
        IN IF r.total_time_ms > deadline
           THEN /\ StateOf(tl[Len(tl)]) = "FAILURE_DETECTED"
                /\ Timestamp(tl[Len(tl)]) = deadline
                /\ r.meets_requirement = FALSE
                /\ r.failure_state_time = Some(deadline)
           ELSE /\ ~HasFailureEvent(tl)
                /\ r.meets_requirement = TRUE
                /\ r.failure_state_time = None

\* a run on the logic engine returned with the deadline breached
C1_Witness ==
    /\ Returned /\ engine = "logic"
    /\ result[1].total_time_ms > config.requirement_time_ms
    /\ result[1].total_time_ms = time_ms

\* C2 as stated: in every returned timeline the timestamps are non-decreasing
\* over every pair of consecutive events, the final event included, and the
\* first two events are at 0.
C2_MonotoneIncludingFinal ==
    Returned =>
        LET ts == Timestamps(result[1].timeline)
        IN /\ ts[1] = 0 /\ ts[2] = 0
           /\ \A i \in 1..(Len(ts) - 1) : ts[i + 1] >= ts[i]

\* C2 as amended: the first two events are at 0 and the timestamps are
\* non-decreasing over the events up to the DOWN_LOCKED event; a
\* FAILURE_DETECTED event, when one is appended, is stamped with the deadline,
\* which lies strictly before the DOWN_LOCKED event that precedes it.
C2_MonotoneUpToLock ==
    Returned =>
        LET tl == result[1].timeline
            ts == Timestamps(tl)
        IN /\ ts[1] = 0 /\ ts[2] = 0
           /\ \A i \in 1..(Len(ts) - 1) :
                IF StateOf(tl[i + 1]) = "FAILURE_DETECTED"
                THEN /\ StateOf(tl[i]) = "DOWN_LOCKED"
                     /\ ts[i + 1] < ts[i]
                ELSE ts[i + 1] >= ts[i]

\* a returned timeline that ends with the failure event, after phases that
\* took time
C2_Witness ==
    /\ Returned
    /\ HasFailureEvent(result[1].timeline)
    /\ pump_delay > 0 /\ extension_time > 0 /\ sensor_delay > 0 /\ lock_delay > 0

\* C3: a call with a zero or negative actuator speed ends by raising
\* ValueError("Actuator speed must be positive") and returns no result, so
\* the caller sees no timeline.
C3_InvalidSpeedRaises ==
    (pc = "done" /\ config.actuator_speed_mm_per_100ms <= 0) =>
        /\ raised = ValueErrorSpeed
        /\ result = None

\* the pkg engine raised on speed 0 with three events already in its local
\* timeline
C3_Witness ==
    /\ pc = "done" /\ engine = "pkg"
    /\ config.actuator_speed_mm_per_100ms = 0
    /\ random_variation_ms > 0
    /\ raised = ValueErrorSpeed /\ result = None
    /\ Len(timeline) = 3

\* C4: the pump delay, the extension time and the lock delay are never
\* negative, so in a returned timeline the pump, actuator and lock events are
\* not stamped before the event that precedes them.
C4_DelaysNonNegative ==
    /\ pump_delay >= 0 /\ extension_time >= 0 /\ lock_delay >= 0
    /\ Returned =>
        LET tl == result[1].timeline
            ts == Timestamps(tl)
        IN /\ tl[3][2][2] >= 0 /\ tl[4][2][2] >= 0 /\ tl[6][2][2] >= 0
           /\ ts[3] >= ts[2] /\ ts[4] >= ts[3] /\ ts[6] >= ts[5]

\* a returned run in which the variation exceeded the nominal values: the
\* extension time and the lock delay were both clamped from below zero
C4_Witness ==
    /\ Returned
    /\ random_variation_ms > 0
    /\ FloatToInt(IdealExtensionTime(config, SpeedMmPerMs(config)))
         + RandInt(-random_variation_ms, random_variation_ms, drawLog[2].raw) < 0
    /\ extension_time = 0
    /\ config.lock_time_ms
         + RandInt(-random_variation_ms, random_variation_ms, drawLog[3].raw) < 0
    /\ lock_delay = 0

\* C5 as stated: for a positive speed, with random_variation_ms = 0 and
\* sensor_noise_ms = 0, the total time is pump_latency_ms + floor(distance /
\* (speed / 100)) + 0 + lock_time_ms, and no clamp changes a delay.
C5_ZeroVarianceTotal ==
    (Returned /\ random_variation_ms = 0 /\ sensor_noise_ms = 0) =>
        /\ result[1].total_time_ms
             = config.pump_latency_ms + RealExtensionFloor(config) + 0
               + config.lock_time_ms
        /\ pump_delay = config.pump_latency_ms
        /\ extension_time = RealExtensionFloor(config)
        /\ lock_delay = config.lock_time_ms

\* C6: a call repeated on the same engine with the same configuration,
\* random_variation_ms and sensor_noise_ms, after the random source was
\* seeded again with the same seed, ends as the first call did: the same
\* timeline, total_time_ms, meets_requirement and failure_state_time, or the
\* same exception.
C6_Deterministic ==
    (pc = "done" /\ caller = "rerun" /\ engine = prev[1].engine) =>
        /\ result = prev[1].result
        /\ raised = prev[1].raised

\* both runs returned, the second replaying three draws that moved delays
C6_Witness ==
    /\ Returned /\ caller = "rerun" /\ engine = prev[1].engine
    /\ random_variation_ms > 0
    /\ prev[1].result # None
    /\ prev[1].drawLog = drawLog
    /\ pump_delay # config.pump_latency_ms
    /\ lock_delay # config.lock_time_ms

\* C7: a call that returns has consumed exactly three values of the random
\* source, the next three of the seeded sequence, for the pump delay, the
\* extension time and the lock delay in that order (none for the sensor
\* delay); in main() run A uses values 1-3 and run B values 4-6.
C7_ThreeDrawsInOrder ==
    Returned =>
        /\ draws = start + 3
        /\ Len(drawLog) = 3
        /\ \A i \in 1..3 : drawLog[i].index = start + i /\ drawLog[i].raw = tape[start + i]
        /\ <<drawLog[1].site, drawLog[2].site, drawLog[3].site>>
             = <<"pump", "actuator", "lock">>
        /\ pump_delay = PumpDelay(config, random_variation_ms, tape[start + 1])
        /\ extension_time = ExtensionTime(config, random_variation_ms, tape[start + 2])
        /\ sensor_delay = sensor_noise_ms
        /\ lock_delay = LockDelay(config, random_variation_ms, tape[start + 3])
        /\ caller = "main" => start = (IF prev = None THEN 0 ELSE 3)

\* main(): run B returned after run A, six values consumed
C7_Witness ==
    /\ Returned /\ caller = "main"
    /\ prev # None /\ prev[1].result # None /\ prev[1].config = config_a
    /\ prev[1].start = 0 /\ prev[1].draws = 3
    /\ config = config_b /\ start = 3 /\ draws = 6

\* C8: the progress loop leaves time_ms, current_state, the timeline and the
\* random source as they are, in every iteration and on its exit, so the
\* result the logic engine returns is the one its state before the loop
\* determines: the total is the sum of the four delays and the events up to
\* DOWN_LOCKED are those appended before the loop.
C8_ProgressLoopNoEffect ==
    /\ [][pc = "progress" =>
            /\ time_ms' = time_ms
            /\ current_state' = current_state
            /\ timeline' = timeline
            /\ draws' = draws /\ tape' = tape]_vars
    /\ []((Returned /\ engine = "logic") =>
            /\ counter = steps + 1
            /\ result[1] = RequirementCheck(config, SubSeq(timeline, 1, 6),
                                            total_delay_time_ms))

\* the logic engine returned after the loop ran to its end
C8_Witness ==
    /\ Returned /\ engine = "logic"
    /\ counter = steps + 1
    /\ total_delay_time_ms > 0
    /\ random_variation_ms > 0

\* C9: configuration A with random_variation_ms = 0 and sensor_noise_ms = 0
\* has extension time 8750 and returns total_time_ms 9350, meets_requirement
\* false and failure_state_time 8000.
C9_ExampleA ==
    (pc = "done" /\ config = config_a /\ random_variation_ms = 0
       /\ sensor_noise_ms = 0) =>
        /\ result # None
        /\ extension_time = 8750
        /\ result[1].total_time_ms = 9350
        /\ result[1].meets_requirement = FALSE
        /\ result[1].failure_state_time = Some(8000)

\* configuration A returned by the logic engine, zero variation and noise
C9_Witness ==
    /\ Returned /\ engine = "logic" /\ config = config_a
    /\ random_variation_ms = 0 /\ sensor_noise_ms = 0
    /\ result[1].total_time_ms = 9350

\* C10: configuration B with random_variation_ms = 0 and sensor_noise_ms = 0
\* has extension time 5833 and returns total_time_ms 6233 and
\* meets_requirement true, with no failure event and no failure_state_time.
C10_ExampleB ==
    (pc = "done" /\ config = config_b /\ random_variation_ms = 0
       /\ sensor_noise_ms = 0) =>
        /\ result # None
        /\ extension_time = 5833
        /\ result[1].total_time_ms = 6233
        /\ result[1].meets_requirement = TRUE
        /\ result[1].failure_state_time = None
        /\ ~HasFailureEvent(result[1].timeline)
        /\ Len(result[1].timeline) = 6

\* configuration B returned by the logic engine, zero variation and noise
C10_Witness ==
    /\ Returned /\ engine = "logic" /\ config = config_b
    /\ random_variation_ms = 0 /\ sensor_noise_ms = 0
    /\ result[1].total_time_ms = 6233

States(tl) == [i \in 1..Len(tl) |-> StateOf(tl[i])]
PhaseOrder ==
    <<"UP_LOCKED", "UP_LOCKED", "TRANSITIONING_DOWN", "TRANSITIONING_DOWN",
      "TRANSITIONING_DOWN", "DOWN_LOCKED">>
IsPrefix(s, t) == Len(s) <= Len(t) /\ SubSeq(t, 1, Len(s)) = s

\* C11: a returned timeline carries the states UP_LOCKED, UP_LOCKED,
\* TRANSITIONING_DOWN (three times), DOWN_LOCKED in this order, followed by
\* one FAILURE_DETECTED exactly when the requirement is not met (6 or 7
\* events); while a call runs, every step leaves the events already appended
\* in place and only appends.
C11_PhaseOrder ==
    /\ [][(pc \notin {"idle", "done"}) => IsPrefix(timeline, timeline')]_vars
    /\ [](Returned =>
            LET r == result[1]
            IN /\ r.timeline = timeline
               /\ States(r.timeline)
                    = IF r.meets_requirement THEN PhaseOrder
                      ELSE Append(PhaseOrder, "FAILURE_DETECTED")
               /\ Len(r.timeline) = IF r.meets_requirement THEN 6 ELSE 7)

\* the pkg engine returned a seven-event timeline
C11_Witness ==
    /\ Returned /\ engine = "pkg"
    /\ ~result[1].meets_requirement
    /\ Len(result[1].timeline) = 7
    /\ random_variation_ms > 0

\* C12: in a returned result the pump event is at pump_delay, the actuator
\* event at pump_delay + extension_time, the sensor event sensor_noise_ms
\* after the actuator event (no draw is made for it), the lock event
\* lock_delay after the sensor event, and total_time_ms is the timestamp of
\* the DOWN_LOCKED event, the sum of the four delays, with or without a
\* FAILURE_DETECTED event after it.
C12_CumulativeTimestamps ==
    Returned =>
        LET r == result[1]
            ts == Timestamps(r.timeline)
        IN /\ ts[3] = pump_delay
           /\ ts[4] = pump_delay + extension_time
           /\ ts[5] = ts[4] + sensor_noise_ms
           /\ sensor_delay = sensor_noise_ms
           /\ \A i \in 1..Len(drawLog) : drawLog[i].site # "sensor"
           /\ ts[6] = ts[5] + lock_delay
           /\ StateOf(r.timeline[6]) = "DOWN_LOCKED"
           /\ r.total_time_ms = ts[6]
           /\ r.total_time_ms = pump_delay + extension_time + sensor_noise_ms + lock_delay
           /\ time_ms = r.total_time_ms

\* a result with a failure event after four phases that all took time
C12_Witness ==
    /\ Returned /\ engine = "logic"
    /\ HasFailureEvent(result[1].timeline)
    /\ result[1].total_time_ms > config.requirement_time_ms
    /\ pump_delay > 0 /\ extension_time > 0 /\ sensor_noise_ms > 0 /\ lock_delay > 0
    /\ Timestamp(result[1].timeline[7]) < result[1].total_time_ms

\* C13 as stated: for a positive speed (any pump latency, lock time and
\* deadline) and non-negative random_variation_ms and sensor_noise_ms, every
\* event of a returned timeline, the FAILURE_DETECTED event included, has a
\* timestamp >= 0.
C13_TimestampsNonNegative ==
    (Returned /\ random_variation_ms >= 0 /\ sensor_noise_ms >= 0) =>
        \A i \in 1..Len(result[1].timeline) : Timestamp(result[1].timeline[i]) >= 0

\* C14 as stated: a call that raises for a non-positive speed has consumed
\* no value of the random source, so the source is where it was when the
\* call began.
C14_RaisesBeforeAnyDraw ==
    (pc = "done" /\ raised = ValueErrorSpeed) =>
        /\ draws = start
        /\ drawLog = <<>>

ValidSpeed == config # None /\ config.actuator_speed_mm_per_100ms > 0

\* C15: a call with a positive speed (and non-negative random_variation_ms
\* and sensor_noise_ms) raises nothing and eventually returns a result; on
\* the logic engine the pause of the progress loop is not negative, the loop
\* runs steps + 1 = 101 iterations (counter 0 to 100) and ends, and the
\* requirement check is reached after it.
C15_Termination ==
    /\ [](ValidSpeed => raised = None)
    /\ []((pc = "progress") => total_delay_time_ms >= 0 /\ counter \in 0..(steps + 1))
    /\ []((pc \in {"check", "done"} /\ engine = "logic" /\ ValidSpeed)
            => counter = steps + 1)
    /\ ((pc = "init" /\ ValidSpeed) ~> Returned)
    /\ ((pc = "progress" /\ counter = 0) ~> (pc = "check" /\ counter = steps + 1))

\* the logic engine, called with a positive speed and a variation that moved
\* the delays, is past the loop and has returned
C15_Witness ==
    /\ Returned /\ engine = "logic" /\ ValidSpeed
    /\ counter = steps + 1
    /\ random_variation_ms > 0 /\ sensor_noise_ms > 0
    /\ total_delay_time_ms = time_ms

OtherEngineRerun == pc = "done" /\ caller = "rerun" /\ engine # prev[1].engine

\* C16 as stated: for every config, random_variation_ms and sensor_noise_ms
\* and the same values from the random source, the two engines both raise or
\* both return the same result, and consume the same draws in the same order.
C16_EnginesEquivalent ==
    OtherEngineRerun =>
        /\ result = prev[1].result
        /\ (raised = None) = (prev[1].raised = None)
        /\ drawLog = prev[1].drawLog
        /\ draws - start = prev[1].draws - prev[1].start

\* C16 as amended: the two engines consume the same draws in the same order;
\* with sensor_noise_ms >= 0 they raise the same error or return the same
\* result; they differ only when the four delays sum to less than 0, where
\* the logic engine raises from time.sleep and the pkg engine returns.
C16_EnginesEquivalentInContract ==
    OtherEngineRerun =>
        LET logic == IF engine = "logic" THEN Outcome ELSE prev[1]
            pkg == IF engine = "pkg" THEN Outcome ELSE prev[1]
        IN /\ drawLog = prev[1].drawLog
           /\ draws - start = prev[1].draws - prev[1].start
           /\ sensor_noise_ms >= 0 =>
                (result = prev[1].result /\ raised = prev[1].raised)
           /\ (result # prev[1].result \/ raised # prev[1].raised) =>
                /\ logic.raised = ValueErrorSleep /\ logic.result = None
                /\ pkg.raised = None /\ pkg.result # None
                /\ pkg.result[1].total_time_ms < 0

\* the logic engine returned what the pkg engine returned before it, after
\* three draws that moved the delays and with a failure event
C16_Witness ==
    /\ OtherEngineRerun /\ engine = "logic"
    /\ Returned /\ prev[1].result = result
    /\ random_variation_ms > 0 /\ sensor_noise_ms > 0
    /\ Len(drawLog) = 3 /\ drawLog = prev[1].drawLog
    /\ pump_delay # config.pump_latency_ms
    /\ HasFailureEvent(result[1].timeline)

MainCall ==
    /\ caller = "main"
    /\ random_variation_ms = variation_ms /\ sensor_noise_ms = main_sensor_noise_ms

\* C17: with random_variation_ms = 200 and sensor_noise_ms = 50, whatever the
\* three draws, configuration A returns total_time_ms >= 8800, does not meet
\* the requirement and ends with a FAILURE_DETECTED event at 8000, and
\* configuration B returns total_time_ms <= 6883 and meets the requirement.
C17_VerdictsFixed ==
    (pc = "done" /\ MainCall) =>
        /\ result # None
        /\ config \in {config_a, config_b}
        /\ config = config_a =>
            LET r == result[1] IN
            /\ r.total_time_ms >= 8800
            /\ r.meets_requirement = FALSE
            /\ StateOf(r.timeline[Len(r.timeline)]) = "FAILURE_DETECTED"
            /\ Timestamp(r.timeline[Len(r.timeline)]) = 8000
            /\ r.failure_state_time = Some(8000)
        /\ config = config_b =>
            LET r == result[1] IN
            /\ r.total_time_ms <= 6883
            /\ r.meets_requirement = TRUE
            /\ ~HasFailureEvent(r.timeline)

\* main(): run A returned its least total, 8800, then run B its greatest, 6883
C17_Witness ==
    /\ Returned /\ MainCall
    /\ prev # None /\ prev[1].config = config_a
    /\ prev[1].result[1].total_time_ms = 8800
    /\ config = config_b
    /\ result[1].total_time_ms = 6883
====
